---- MODULE Spec2Model ----
(***************************************************************************)
(* A model of tools/scripts/anonymize-package.js (the script embedded in   *)
(* src/README.md, lines 62-944): the dependency-graph builder               *)
(* (extractImports, findUsedFiles), the directory rename planner            *)
(* (anonymizeDirectories), the specifier rewriter (updateExportPaths) and   *)
(* the orchestration in main.                                               *)
(*                                                                          *)
(* Strings are sequences of one-character strings, so that the script's     *)
(* startsWith / endsWith / regex tests are character tests here too.  A     *)
(* file-system path is a sequence of names (the components below "/"); a    *)
(* module specifier is the sequence of its "/"-separated segments.          *)
(***************************************************************************)
EXTENDS Integers, Sequences, FiniteSets, TLC

(***************************************************************************)
(* Bounds of the model.                                                     *)
(***************************************************************************)
\* how many import/export statements the package holds, over all its files
MaxStmts == 2
\* how many fs.unlinkSync calls of one run may throw
MaxDeleteFail == 1

(***************************************************************************)
(* Strings.                                                                 *)
(***************************************************************************)
StartsWith(s, t) == Len(t) <= Len(s) /\ SubSeq(s, 1, Len(t)) = t

EndsWith(s, t) == Len(t) <= Len(s) /\ SubSeq(s, Len(s) - Len(t) + 1, Len(s)) = t

\* Number.prototype.toString(36) digits; also the characters that occur in names
Digits36 ==
  << "0", "1", "2", "3", "4", "5", "6", "7", "8", "9", "a", "b", "c", "d", "e",
     "f", "g", "h", "i", "j", "k", "l", "m", "n", "o", "p", "q", "r", "s", "t",
     "u", "v", "w", "x", "y", "z" >>

\* String.prototype.charCodeAt for the characters of the model
CharCode(c) ==
  IF c = "." THEN 46
  ELSE IF c = "-" THEN 45
  ELSE IF c = "@" THEN 64
  ELSE IF c = "_" THEN 95
  ELSE LET i == CHOOSE k \in 1..36 : Digits36[k] = c
       IN  IF i <= 10 THEN 47 + i ELSE 86 + i

\* s < t in the order of the character codes
RECURSIVE StrLess(_, _)
StrLess(s, t) ==
  IF t = << >> THEN FALSE
  ELSE IF s = << >> THEN TRUE
  ELSE IF Head(s) = Head(t) THEN StrLess(Tail(s), Tail(t))
  ELSE CharCode(Head(s)) < CharCode(Head(t))

RECURSIVE SortNames(_)
SortNames(S) ==
  IF S = {} THEN << >>
  ELSE LET m == CHOOSE x \in S : \A y \in S : x = y \/ StrLess(x, y)
       IN  << m >> \o SortNames(S \ {m})

(***************************************************************************)
(* The names and suffixes the script tests for.                             *)
(***************************************************************************)
Dot == << "." >>
DotDot == << ".", "." >>
TsExt == << ".", "t", "s" >>
TestTsExt == << ".", "t", "e", "s", "t", ".", "t", "s" >>
SpecTsExt == << ".", "s", "p", "e", "c", ".", "t", "s" >>
IndexName == << "i", "n", "d", "e", "x" >>
IndexTs == IndexName \o TsExt
SrcName == << "s", "r", "c" >>
TestDirName == << "t", "e", "s", "t" >>
DistName == << "d", "i", "s", "t" >>
NodeModulesName ==
  << "n", "o", "d", "e", "_", "m", "o", "d", "u", "l", "e", "s" >>
GitName == << ".", "g", "i", "t" >>
VitestConfigName ==
  << "v", "i", "t", "e", "s", "t", ".", "c", "o", "n", "f", "i", "g" >> \o TsExt
VitestBaseName == << "v", "i", "t", "e", "s", "t", ".", "b", "a", "s", "e" >>
VitestName == << "v", "i", "t", "e", "s", "t" >>

(***************************************************************************)
(* The name generators.  The hash is                                        *)
(*   reduce((acc, char) => (acc << 5) - acc + char.charCodeAt(0), 0)        *)
(* where acc << 5 is a 32-bit operation and the subtraction and addition    *)
(* are not.  Numbers are kept in two limbs, hi * 65536 + lo, because the    *)
(* accumulator leaves the 32-bit range.                                     *)
(***************************************************************************)
Limb == 256 * 256

\* ToInt32(x) << 5
Shl5(x) ==
  LET t == x.lo * 32
      h == (x.hi * 32 + (t \div Limb)) % Limb
  IN  [hi |-> IF h >= Limb \div 2 THEN h - Limb ELSE h, lo |-> t % Limb]

\* (acc << 5) - acc + code
HashStep(acc, code) ==
  LET w == Shl5(acc)
      l == w.lo - acc.lo + code + Limb
  IN  [hi |-> w.hi - acc.hi + (l \div Limb) - 1, lo |-> l % Limb]

RECURSIVE HashFrom(_, _)
HashFrom(acc, s) ==
  IF s = << >> THEN acc ELSE HashFrom(HashStep(acc, CharCode(Head(s))), Tail(s))

\* Math.abs
AbsNum(x) ==
  IF x.hi >= 0 THEN x
  ELSE IF x.lo = 0 THEN [hi |-> -x.hi, lo |-> 0]
  ELSE [hi |-> -x.hi - 1, lo |-> Limb - x.lo]

\* toString(36) of a non-negative number
RECURSIVE ToString36(_)
ToString36(x) ==
  LET r == x.hi % 36
      t == r * Limb + x.lo
      q == [hi |-> x.hi \div 36, lo |-> t \div 36]
      d == << Digits36[(t % 36) + 1] >>
  IN  IF q.hi = 0 /\ q.lo = 0 THEN d ELSE ToString36(q) \o d

\* index.toString() inside (originalName + index)
RECURSIVE IndexStr(_)
IndexStr(index) ==
  IF index < 10 THEN << Digits36[index + 1] >>
  ELSE IndexStr(index \div 10) \o << Digits36[(index % 10) + 1] >>

HashName(s) == ToString36(AbsNum(HashFrom([hi |-> 0, lo |-> 0], s)))

generateAnonymizedName(originalName) ==
  << "p", "a", "c", "k", "a", "g", "e", "-" >> \o HashName(originalName)

generateTestFileName(originalName, index) ==
  << "t", "e", "s", "t", "-" >> \o HashName(originalName \o IndexStr(index))
    \o TestTsExt

generateFolderName(originalName, index) ==
  << "d", "i", "r", "-" >> \o HashName(originalName \o IndexStr(index))

(***************************************************************************)
(* Paths (node's path module, POSIX flavour).                               *)
(***************************************************************************)
\* the string of an absolute path: "/" before every component
RECURSIVE Flat(_)
Flat(p) == IF p = << >> THEN << >> ELSE << "/" >> \o Head(p) \o Flat(Tail(p))

\* String.prototype.startsWith on two absolute paths
PathStartsWith(p, q) == StartsWith(Flat(p), Flat(q))

\* q is p or an ancestor of p, by whole components
IsUnder(p, q) == Len(q) <= Len(p) /\ SubSeq(p, 1, Len(q)) = q

Dirname(p) == SubSeq(p, 1, Len(p) - 1)
Basename(p) == p[Len(p)]

\* path.normalize / the normalising part of path.resolve and path.join:
\* the segments one by one from a base directory
RECURSIVE Walk(_, _)
Walk(base, segs) ==
  IF segs = << >> THEN base
  ELSE LET s == Head(segs)
       IN  IF s = << >> \/ s = Dot THEN Walk(base, Tail(segs))
           ELSE IF s = DotDot THEN Walk(Dirname(base), Tail(segs))
           ELSE Walk(base \o << s >>, Tail(segs))

\* the specifier starts with "/"
IsAbsoluteSpec(spec) == Len(spec) >= 2 /\ spec[1] = << >>

\* the specifier starts with "."
StartsWithDot(spec) == spec # << >> /\ spec[1] # << >> /\ spec[1][1] = "."

\* the specifier starts with "@"
StartsWithAt(spec) == spec # << >> /\ spec[1] # << >> /\ spec[1][1] = "@"

\* path.resolve(dir, importPath)
PathResolve(dir, spec) ==
  IF IsAbsoluteSpec(spec) THEN Walk(<< >>, spec) ELSE Walk(dir, spec)

\* importPath.endsWith('.ts')
SpecEndsWithTs(spec) == spec # << >> /\ EndsWith(spec[Len(spec)], TsExt)

\* importPath.endsWith('/index')
SpecEndsWithSlashIndex(spec) == Len(spec) >= 2 /\ spec[Len(spec)] = IndexName

\* importPath.endsWith('/')
SpecEndsWithSlash(spec) == Len(spec) >= 2 /\ spec[Len(spec)] = << >>

\* importPath + '.ts'
AppendTs(spec) == [spec EXCEPT ![Len(spec)] = @ \o TsExt]

\* the number of leading components two paths share
RECURSIVE CommonLen(_, _)
CommonLen(p, q) ==
  IF p = << >> \/ q = << >> \/ Head(p) # Head(q) THEN 0
  ELSE 1 + CommonLen(Tail(p), Tail(q))

\* path.relative(from, to), as the segments of the relative path
PathRelative(from, to) ==
  LET c == CommonLen(from, to)
  IN  [i \in 1..(Len(from) - c) |-> DotDot] \o SubSeq(to, c + 1, Len(to))

\* path.join(dir, relativePath)
PathJoin(dir, segs) == Walk(dir, segs)

(***************************************************************************)
(* The file system: fs.files maps the path of every file to its content,    *)
(* fs.dirs is the set of the directories.  A content is the sequence of     *)
(* the import/export statements of the file, each [kind, spec]:             *)
(*   "default"    import x from 'spec'                                      *)
(*   "named"      import { x } from 'spec'                                  *)
(*   "namespace"  import * as x from 'spec'                                 *)
(*   "bare"       import 'spec'                                             *)
(*   "export"     export ... from 'spec'                                    *)
(* The other lines of a file match none of the script's patterns.           *)
(***************************************************************************)
Kinds == {"default", "named", "namespace", "bare", "export"}

ExistsSync(fs, p) == p \in DOMAIN fs.files \/ p \in fs.dirs

IsFile(fs, p) == p \in DOMAIN fs.files

\* fs.readdirSync(dir): the names in dir, in the order of the character codes
ReadDir(fs, dir) ==
  SortNames({ Basename(p) : p \in { q \in (DOMAIN fs.files) \cup fs.dirs :
                                    q # << >> /\ Dirname(q) = dir } })

\* the entries of ReadDir that are directories
SubDirs(fs, dir) == SelectSeq(ReadDir(fs, dir), LAMBDA n : (dir \o << n >>) \in fs.dirs)

Restrict(f, S) == [x \in S |-> f[x]]

\* fs.writeFileSync
WriteFile(fs, p, content) ==
  [fs EXCEPT !.files = [q \in (DOMAIN fs.files) \cup {p} |->
                          IF q = p THEN content ELSE fs.files[q]]]

\* fs.unlinkSync
Unlink(fs, p) == [fs EXCEPT !.files = Restrict(@, DOMAIN @ \ {p})]

\* fs.rmdirSync of an empty directory
Rmdir(fs, d) == [fs EXCEPT !.dirs = @ \ {d}]

\* fs.rmSync(dir, {recursive: true, force: true})
RmRecursive(fs, d) ==
  [files |-> Restrict(fs.files, { p \in DOMAIN fs.files : ~IsUnder(p, d) }),
   dirs |-> { p \in fs.dirs : ~IsUnder(p, d) }]

\* the path p after the directory or file at `old` has moved to `new`
Moved(p, old, new) ==
  IF IsUnder(p, old) THEN new \o SubSeq(p, Len(old) + 1, Len(p)) ELSE p

\* the path that Moved maps to p
Unmoved(p, old, new) ==
  IF IsUnder(p, new) THEN old \o SubSeq(p, Len(new) + 1, Len(p)) ELSE p

\* fs.renameSync(old, new), of a file or of a directory with all it holds
Rename(fs, old, new) ==
  LET F == { Moved(p, old, new) : p \in DOMAIN fs.files }
  IN  [files |-> [p \in F |-> fs.files[Unmoved(p, old, new)]],
       dirs |-> { Moved(p, old, new) : p \in fs.dirs }]

(***************************************************************************)
(* Path Resolver and Reference Extractor (extractImports).                  *)
(***************************************************************************)
\* /import\s+[^{*].*?\s+from\s+['"]([^'"]+)['"]/g : the binding may start
\* with neither "{" nor "*"
MatchesImportRegex(kind) == kind = "default"

\* /export\s+.*?\s+from\s+['"]([^'"]+)['"]/g
MatchesExportFromRegex(kind) == kind = "export"

\* /import\s+.*?\s+from\s+['"]([^'"]+)['"]/g of updateExportPaths
MatchesImportFromRegex(kind) == kind \in {"default", "named", "namespace"}

\* "Skip external packages (starting with @ or not relative)"
IsExternal(spec) ==
  StartsWithAt(spec) \/ (~StartsWithDot(spec) /\ ~IsAbsoluteSpec(spec))

\* the candidate the script settles on: the specifier as given when it ends
\* in .ts; else specifier + '.ts' when that exists; else specifier/index.ts
ResolveImport(fs, dir, spec) ==
  IF SpecEndsWithTs(spec) THEN PathResolve(dir, spec)
  ELSE LET withTs == PathResolve(dir, AppendTs(spec))
       IN  IF ExistsSync(fs, withTs) THEN withTs
           ELSE PathResolve(dir, spec) \o << IndexTs >>

\* "Only include if it's within the package"
WithinPackage(fs, resolved, packageRoot) ==
  PathStartsWith(resolved, packageRoot) /\ ExistsSync(fs, resolved)

\* the resolved, accepted targets of the matched statements
ResolvedTargets(fs, filePath, packageRoot, matched) ==
  LET stmts == SelectSeq(matched, LAMBDA st : ~IsExternal(st.spec))
      all == [i \in 1..Len(stmts) |->
                ResolveImport(fs, Dirname(filePath), stmts[i].spec)]
  IN  SelectSeq(all, LAMBDA r : WithinPackage(fs, r, packageRoot))

extractImports(fs, filePath, packageRoot) ==
  IF ~ExistsSync(fs, filePath) THEN [directImports |-> << >>, reExports |-> << >>]
  ELSE [directImports |->
          ResolvedTargets(fs, filePath, packageRoot,
            SelectSeq(fs.files[filePath], LAMBDA st : MatchesImportRegex(st.kind))),
        reExports |->
          ResolvedTargets(fs, filePath, packageRoot,
            SelectSeq(fs.files[filePath], LAMBDA st : MatchesExportFromRegex(st.kind)))]

Range(q) == { q[i] : i \in 1..Len(q) }

(***************************************************************************)
(* Dependency Graph Builder (findUsedFiles), one loop iteration at a time.  *)
(***************************************************************************)
EntryPoint(packageRoot) == packageRoot \o << SrcName, IndexTs >>

\* a loop without the visited check
AlreadyUsedNever(used, currentFile) == FALSE

\* "if (usedFiles.has(currentFile)) continue"
AlreadyUsed(used, currentFile) == currentFile \in used

\* the imports of toPush that are not in used, appended to the queue in order
PushUnused(queue, used, toPush) ==
  queue \o SelectSeq(toPush, LAMBDA f : f \notin used)

\* usedFiles.forEach: "Files that are used but not directly imported are
\* re-exported only"
ReExportedOnly(used, direct) ==
  { file \in used : /\ file \notin direct
                    /\ ~EndsWith(Flat(file), IndexTs)
                    /\ EndsWith(Flat(file), TsExt) }

(***************************************************************************)
(* Reference Rewriter (updateExportPaths).  dirMap is the Map in insertion  *)
(* order: a sequence of [old, new].                                         *)
(***************************************************************************)
\* .replace(/\/index\.ts$/, '')
StripSlashIndexTs(segs) ==
  IF Len(segs) >= 2 /\ segs[Len(segs)] = IndexTs
  THEN SubSeq(segs, 1, Len(segs) - 1) ELSE segs

\* .replace(/\.ts$/, '')
StripTs(segs) ==
  IF segs # << >> /\ EndsWith(segs[Len(segs)], TsExt)
  THEN [segs EXCEPT ![Len(segs)] = SubSeq(@, 1, Len(@) - 3)] ELSE segs

\* "Ensure it starts with ./"
EnsureDot(segs) == IF StartsWithDot(segs) THEN segs ELSE << Dot >> \o segs

\* "Reconstruct the import path"
ReconstructImportPath(importPath, newRelativePath) ==
  IF SpecEndsWithTs(importPath) THEN newRelativePath
  ELSE IF SpecEndsWithSlashIndex(importPath) \/ SpecEndsWithSlash(importPath)
    THEN StripTs(StripSlashIndexTs(newRelativePath))
  ELSE StripTs(newRelativePath)

\* "if (resolvedPath.startsWith(oldDir))"
EntryApplies(resolvedPath, oldDir) == PathStartsWith(resolvedPath, oldDir)

\* a rewriter that takes every specifier for a relative one
IsRelativePathAlways(importPath) == TRUE

\* "Only process relative paths"
IsRelativePath(importPath) == StartsWithDot(importPath) \/ IsAbsoluteSpec(importPath)

\* a loop without the return: the last entry that applies wins
AppliedEntryLast(fs, filePath, importPath, dirMap) ==
  LET resolvedPath == ResolveImport(fs, Dirname(filePath), importPath)
      hits == { i \in 1..Len(dirMap) : EntryApplies(resolvedPath, dirMap[i].old) }
  IN  IF hits = {} THEN 0 ELSE CHOOSE i \in hits : \A j \in hits : j <= i

\* "for (const [oldDir, newDir] of dirMap.entries())" up to its return: the
\* position in dirMap of the first entry that applies to the resolved path of
\* the specifier, 0 when none does
AppliedEntry(fs, filePath, importPath, dirMap) ==
  LET resolvedPath == ResolveImport(fs, Dirname(filePath), importPath)
      hits == { i \in 1..Len(dirMap) : EntryApplies(resolvedPath, dirMap[i].old) }
  IN  IF hits = {} THEN 0 ELSE CHOOSE i \in hits : \A j \in hits : i <= j

\* the replace callback: the specifier that takes the place of importPath
RewriteSpecifier(fs, filePath, importPath, dirMap) ==
  IF ~IsRelativePath(importPath) THEN importPath
  ELSE
    LET dir == Dirname(filePath)
        resolvedPath == ResolveImport(fs, dir, importPath)
        applied == AppliedEntry(fs, filePath, importPath, dirMap)
    IN  IF applied = 0 THEN importPath
        ELSE
          LET e == dirMap[applied]
              relativePath == PathRelative(e.old, resolvedPath)
              newResolvedPath == PathJoin(e.new, relativePath)
              newRelativePath == PathRelative(dir, newResolvedPath)
          IN  EnsureDot(ReconstructImportPath(importPath, newRelativePath))

\* both content.replace passes: the export-from statements, then the imports
RewriteContent(fs, filePath, dirMap) ==
  LET content == fs.files[filePath]
  IN  [i \in 1..Len(content) |->
         IF MatchesExportFromRegex(content[i].kind) \/ MatchesImportFromRegex(content[i].kind)
         THEN [content[i] EXCEPT !.spec = RewriteSpecifier(fs, filePath, @, dirMap)]
         ELSE content[i]]

updateExportPaths(fs, filePath, dirMap) ==
  IF ~ExistsSync(fs, filePath) THEN fs
  ELSE LET content == RewriteContent(fs, filePath, dirMap)
       IN  IF content # fs.files[filePath] THEN WriteFile(fs, filePath, content) ELSE fs

(***************************************************************************)
(* Directory Rename Planner (anonymizeDirectories).  The state threaded     *)
(* through the recursion is [fs, dirMap, log]; log records every call of    *)
(* generateFolderName as [dir, index, new].  index is a parameter passed by *)
(* value: the recursive call gets the caller's current value and what it    *)
(* does to its own copy is lost.                                            *)
(***************************************************************************)
\* a skip list that forgets node_modules and dist
ExcludedFromRenameGitTest(name) == name \in {GitName, TestDirName}

\* "Skip certain directories"
ExcludedFromRename(name) ==
  name \in {NodeModulesName, DistName, GitName, TestDirName}

\* a planner that names and renames a directory before it goes into it
RECURSIVE AnonymizeEntriesPreOrder(_, _, _, _)
AnonymizeEntriesPreOrder(st, packageRoot, entries, index) ==
  IF entries = << >> THEN st
  ELSE
    LET name == Head(entries)
        fullPath == packageRoot \o << name >>
    IN  IF ExcludedFromRename(name)
        THEN AnonymizeEntriesPreOrder(st, packageRoot, Tail(entries), index)
        ELSE
          LET newName == generateFolderName(name, index)
              newPath == packageRoot \o << newName >>
              logged == [st EXCEPT !.log =
                           Append(@, [dir |-> fullPath, index |-> index, new |-> newPath])]
              after ==
                IF name # newName
                THEN [logged EXCEPT !.dirMap = Append(@, [old |-> fullPath, new |-> newPath]),
                                    !.fs = Rename(@, fullPath, newPath)]
                ELSE logged
              sub == AnonymizeEntriesPreOrder(after, newPath, SubDirs(after.fs, newPath),
                                              index)
          IN  AnonymizeEntriesPreOrder(sub, packageRoot, Tail(entries), index + 1)

RECURSIVE AnonymizeEntries(_, _, _, _)
AnonymizeEntries(st, packageRoot, entries, index) ==
  IF entries = << >> THEN st
  ELSE
    LET name == Head(entries)
        fullPath == packageRoot \o << name >>
    IN  IF ExcludedFromRename(name)
        THEN AnonymizeEntries(st, packageRoot, Tail(entries), index)
        ELSE
          LET sub == AnonymizeEntries(st, fullPath, SubDirs(st.fs, fullPath), index)
              newName == generateFolderName(name, index)
              newPath == packageRoot \o << newName >>
              logged == [sub EXCEPT !.log =
                           Append(@, [dir |-> fullPath, index |-> index, new |-> newPath])]
              after ==
                IF name # newName
                THEN [logged EXCEPT !.dirMap = Append(@, [old |-> fullPath, new |-> newPath]),
                                    !.fs = Rename(@, fullPath, newPath)]
                ELSE logged
          IN  AnonymizeEntries(after, packageRoot, Tail(entries), index + 1)

anonymizeDirectories(fs, packageRoot) ==
  AnonymizeEntries([fs |-> fs, dirMap |-> << >>, log |-> << >>],
                   packageRoot, SubDirs(fs, packageRoot), 0)

(***************************************************************************)
(* The tree walks and steps of main.                                        *)
(***************************************************************************)
RECURSIVE FindTestEntries(_, _, _, _)
FindTestEntries(fs, dir, entries, testFiles) ==
  IF entries = << >> THEN testFiles
  ELSE
    LET name == Head(entries)
        fullPath == dir \o << name >>
        rest == Tail(entries)
    IN  IF fullPath \in fs.dirs
        THEN IF name # NodeModulesName /\ name # DistName
             THEN FindTestEntries(fs, dir, rest,
                    FindTestEntries(fs, fullPath, ReadDir(fs, fullPath), testFiles))
             ELSE FindTestEntries(fs, dir, rest, testFiles)
        ELSE IF EndsWith(name, TestTsExt)
             THEN FindTestEntries(fs, dir, rest, Append(testFiles, fullPath))
             ELSE FindTestEntries(fs, dir, rest, testFiles)

findTestFiles(fs, dir) == FindTestEntries(fs, dir, ReadDir(fs, dir), << >>)

RECURSIVE FindSourceEntries(_, _, _, _)
FindSourceEntries(fs, dir, entries, sourceFiles) ==
  IF entries = << >> THEN sourceFiles
  ELSE
    LET name == Head(entries)
        fullPath == dir \o << name >>
        rest == Tail(entries)
    IN  IF fullPath \in fs.dirs
        THEN IF name # NodeModulesName /\ name # DistName /\ name # TestDirName
             THEN FindSourceEntries(fs, dir, rest,
                    FindSourceEntries(fs, fullPath, ReadDir(fs, fullPath), sourceFiles))
             ELSE FindSourceEntries(fs, dir, rest, sourceFiles)
        ELSE IF /\ EndsWith(name, TsExt)
                /\ ~EndsWith(name, TestTsExt)
                /\ ~EndsWith(name, SpecTsExt)
                /\ name # VitestConfigName
             THEN FindSourceEntries(fs, dir, rest, Append(sourceFiles, fullPath))
             ELSE FindSourceEntries(fs, dir, rest, sourceFiles)

findSourceFiles(fs, dir) == FindSourceEntries(fs, dir, ReadDir(fs, dir), << >>)

\* anonymizeTestFile: import { assert } from 'vitest'; describe(...)
TestStub == << [kind |-> "named", spec |-> << VitestName >>] >>

\* testFiles.forEach((testFile, index) => ...), from position index + 1 on
RECURSIVE AnonymizeTests(_, _, _)
AnonymizeTests(fs, testFiles, index) ==
  IF index >= Len(testFiles) THEN fs
  ELSE
    LET testFile == testFiles[index + 1]
        stubbed == WriteFile(fs, testFile, TestStub)
        newTestFilePath ==
          Dirname(testFile) \o << generateTestFileName(Basename(testFile), index) >>
    IN  AnonymizeTests(IF testFile # newTestFilePath
                       THEN Rename(stubbed, testFile, newTestFilePath) ELSE stubbed,
                       testFiles, index + 1)

RECURSIVE DeleteTestEntries(_, _, _)
DeleteTestEntries(fs, dir, entries) ==
  IF entries = << >> THEN fs
  ELSE
    LET name == Head(entries)
        fullPath == dir \o << name >>
        rest == Tail(entries)
    IN  IF fullPath \notin fs.dirs THEN DeleteTestEntries(fs, dir, rest)
        ELSE IF name = TestDirName
          THEN DeleteTestEntries(RmRecursive(fs, fullPath), dir, rest)
        ELSE IF name # NodeModulesName /\ name # DistName /\ name # GitName
          THEN DeleteTestEntries(
                 DeleteTestEntries(fs, fullPath, ReadDir(fs, fullPath)), dir, rest)
        ELSE DeleteTestEntries(fs, dir, rest)

deleteTestDirectories(fs, dir) == DeleteTestEntries(fs, dir, ReadDir(fs, dir))

\* fs.readdirSync(dirPath).length === 0, false when readdirSync throws
isDirectoryEmpty(fs, dirPath) == dirPath \in fs.dirs /\ ReadDir(fs, dirPath) = << >>

RECURSIVE removeEmptyDirectories(_, _, _)
removeEmptyDirectories(fs, dirPath, packageRoot) ==
  IF dirPath = packageRoot \/ ~isDirectoryEmpty(fs, dirPath) THEN fs
  ELSE
    LET removed == Rmdir(fs, dirPath)
        parentDir == Dirname(dirPath)
    IN  IF parentDir # dirPath /\ PathStartsWith(parentDir, packageRoot)
        THEN removeEmptyDirectories(removed, parentDir, packageRoot)
        ELSE removed

\* a deleteFile that returns true from its catch block too
deleteFileAlwaysTrue(fs, filePath, failing) ==
  [fs |-> IF filePath \in failing THEN fs ELSE Unlink(fs, filePath), ok |-> TRUE]

\* deleteFile: the file system after the call and the value returned; failing
\* holds the files whose fs.unlinkSync throws
deleteFile(fs, filePath, failing) ==
  IF filePath \in failing THEN [fs |-> fs, ok |-> FALSE]
  ELSE [fs |-> Unlink(fs, filePath), ok |-> TRUE]

\* sourceFiles.forEach: st is [fs, deletedCount]
RECURSIVE DeleteSources(_, _, _, _)
DeleteSources(st, sourceFiles, failing, packageRoot) ==
  IF sourceFiles = << >> THEN st
  ELSE
    LET sourceFile == Head(sourceFiles)
        rest == Tail(sourceFiles)
    IN  IF \/ EndsWith(Flat(sourceFile), TestTsExt)
           \/ EndsWith(Flat(sourceFile), SpecTsExt)
           \/ Basename(sourceFile) = VitestConfigName
           \/ ~ExistsSync(st.fs, sourceFile)
        THEN DeleteSources(st, rest, failing, packageRoot)
        ELSE
          LET deleted == deleteFile(st.fs, sourceFile, failing)
          IN  IF ~deleted.ok THEN DeleteSources(st, rest, failing, packageRoot)
              ELSE DeleteSources(
                     [fs |-> removeEmptyDirectories(deleted.fs, Dirname(sourceFile),
                                                    packageRoot),
                      deletedCount |-> st.deletedCount + 1],
                     rest, failing, packageRoot)

\* "Ensure vitest.config.ts exists"
EnsureVitestConfig(fs, packageRoot, workspaceRoot) ==
  LET vitestConfigPath == packageRoot \o << VitestConfigName >>
      relativePath ==
        PathRelative(packageRoot, workspaceRoot \o << VitestBaseName \o TsExt >>)
  IN  IF ExistsSync(fs, vitestConfigPath) THEN fs
      ELSE WriteFile(fs, vitestConfigPath,
                     << [kind |-> "named", spec |-> relativePath] >>)

RECURSIVE UpdateEntries(_, _, _, _)
UpdateEntries(fs, dir, entries, dirMap) ==
  IF entries = << >> THEN fs
  ELSE
    LET name == Head(entries)
        fullPath == dir \o << name >>
        rest == Tail(entries)
    IN  IF fullPath \in fs.dirs
        THEN IF ~ExcludedFromRename(name)
             THEN UpdateEntries(UpdateEntries(fs, fullPath, ReadDir(fs, fullPath), dirMap),
                                dir, rest, dirMap)
             ELSE UpdateEntries(fs, dir, rest, dirMap)
        ELSE IF EndsWith(name, TsExt)
             THEN UpdateEntries(updateExportPaths(fs, fullPath, dirMap), dir, rest, dirMap)
             ELSE UpdateEntries(fs, dir, rest, dirMap)

updateAllFilePaths(fs, dir, dirMap) == UpdateEntries(fs, dir, ReadDir(fs, dir), dirMap)

RECURSIVE CleanupEntries(_, _, _, _)
\* the loop of cleanupEmptyDirs over the entries, then (entries exhausted) the
\* check of dir itself
CleanupEntries(fs, dir, entries, packageRoot) ==
  IF entries = << >>
  THEN IF dir # packageRoot /\ isDirectoryEmpty(fs, dir)
       THEN removeEmptyDirectories(fs, dir, packageRoot) ELSE fs
  ELSE
    LET name == Head(entries)
        fullPath == dir \o << name >>
        rest == Tail(entries)
    IN  IF name \in {NodeModulesName, DistName, GitName} \/ fullPath \notin fs.dirs
        THEN CleanupEntries(fs, dir, rest, packageRoot)
        ELSE CleanupEntries(
               CleanupEntries(fs, fullPath, ReadDir(fs, fullPath), packageRoot),
               dir, rest, packageRoot)

cleanupEmptyDirs(fs, dir, packageRoot) ==
  CleanupEntries(fs, dir, ReadDir(fs, dir), packageRoot)

(***************************************************************************)
(* The workspace the runs start from.  The directories and files are        *)
(* fixed; what varies is which import/export statements the files hold:     *)
(* any set of at most MaxStmts statements of Pool.                          *)
(*                                                                          *)
(*   /w/vitest.base.ts                                                      *)
(*   /w/pq/x.ts                      a sibling of the package               *)
(*   /w/p/src/index.ts               the entry point                        *)
(*   /w/p/src/top.spec.ts                                                   *)
(*   /w/p/src/a/util.ts   /w/p/src/a/util.spec.ts                           *)
(*   /w/p/src/a/b/helper.ts   /w/p/src/a/b/h.test.ts                        *)
(*   /w/p/src/shared/index.ts                                               *)
(*   /w/p/src/ab/y.ts                a directory whose name starts with "a" *)
(*   /w/p/test/c.ts   /w/p/test/c.test.ts                                   *)
(*   /w/p/dist/d.test.ts                                                    *)
(*   /w/p/src/node_modules/m/n.ts   /w/p/src/node_modules/m/n.test.ts       *)
(*   /w/p/src/node_modules/e/        an empty directory                     *)
(*   /w/p/src/.git/g/k.spec.ts                                              *)
(***************************************************************************)
NameA == << "a" >>
NameB == << "b" >>
NameShared == << "s", "h", "a", "r", "e", "d" >>
NameUtil == << "u", "t", "i", "l" >>
NameHelper == << "h", "e", "l", "p", "e", "r" >>
NameX == << "x" >>

workspaceRoot == << << "w" >> >>
absolutePackagePath == workspaceRoot \o << << "p" >> >>
siblingPath == workspaceRoot \o << << "p", "q" >> >>
srcDirPath == absolutePackagePath \o << SrcName >>
newPackagePath ==
  Dirname(absolutePackagePath) \o << generateAnonymizedName(Basename(absolutePackagePath)) >>

FileIndex == srcDirPath \o << IndexTs >>
FileTopSpec == srcDirPath \o << << "t", "o", "p" >> \o SpecTsExt >>
FileUtil == srcDirPath \o << NameA, NameUtil \o TsExt >>
FileUtilSpec == srcDirPath \o << NameA, NameUtil \o SpecTsExt >>
FileHelper == srcDirPath \o << NameA, NameB, NameHelper \o TsExt >>
FileHTest == srcDirPath \o << NameA, NameB, << "h" >> \o TestTsExt >>
FileSharedIndex == srcDirPath \o << NameShared, IndexTs >>
FileY == srcDirPath \o << NameA \o NameB, << "y" >> \o TsExt >>
FileCucumber == absolutePackagePath \o << TestDirName, << "c" >> \o TsExt >>
FileCucumberTest == absolutePackagePath \o << TestDirName, << "c" >> \o TestTsExt >>
FileDistTest == absolutePackagePath \o << DistName, << "d" >> \o TestTsExt >>
FileDep == srcDirPath \o << NodeModulesName, << "m" >>, << "n" >> \o TsExt >>
FileDepTest == srcDirPath \o << NodeModulesName, << "m" >>, << "n" >> \o TestTsExt >>
DirDepEmpty == srcDirPath \o << NodeModulesName, << "e" >> >>
FileGitSpec == srcDirPath \o << GitName, << "g" >>, << "k" >> \o SpecTsExt >>
FileX == siblingPath \o << NameX \o TsExt >>
FileVitestBase == workspaceRoot \o << VitestBaseName \o TsExt >>

SkeletonFiles ==
  { FileIndex, FileTopSpec, FileUtil, FileUtilSpec, FileHelper, FileHTest,
    FileSharedIndex, FileY, FileCucumber, FileCucumberTest, FileDistTest, FileDep,
    FileDepTest, FileGitSpec, FileX, FileVitestBase }

\* every proper prefix of a path, the root aside
Ancestors(p) == { SubSeq(p, 1, n) : n \in 1..(Len(p) - 1) }

SkeletonDirs == UNION { Ancestors(p) : p \in SkeletonFiles } \cup {DirDepEmpty}

Stmt(file, kind, spec) == [file |-> file, kind |-> kind, spec |-> spec]

Pool ==
  << Stmt(FileIndex, "default", << Dot, NameA, NameUtil >>),
     Stmt(FileIndex, "named", << Dot, NameA, NameUtil >>),
     Stmt(FileIndex, "namespace", << Dot, NameA, NameB, NameHelper \o TsExt >>),
     Stmt(FileIndex, "bare", << Dot, NameShared >>),
     Stmt(FileIndex, "export", << Dot, NameShared >>),
     Stmt(FileIndex, "export", << Dot, NameA, NameUtil >>),
     Stmt(FileIndex, "default", << DotDot, DotDot, << "p", "q" >>, NameX \o TsExt >>),
     Stmt(FileIndex, "default", << NameShared >>),
     Stmt(FileUtil, "export", << Dot, NameB, NameHelper >>),
     Stmt(FileUtil, "default", << DotDot, IndexName >>),
     Stmt(FileUtil, "default", << Dot, NameUtil >>),
     Stmt(FileTopSpec, "default", << Dot, NameA, NameUtil >>),
     Stmt(FileTopSpec, "default", << Dot, NameA, NameUtil \o TsExt >>),
     Stmt(FileTopSpec, "named", << Dot, NameA, NameB, NameHelper \o TsExt >>),
     Stmt(FileTopSpec, "default", << Dot, NameShared, IndexName >>),
     Stmt(FileTopSpec, "default", << NameA >>),
     Stmt(FileTopSpec, "default", << Dot, NameA, NameX >>),
     Stmt(FileTopSpec, "default", << Dot, NameA \o NameB, << "y" >> >>),
     Stmt(FileUtilSpec, "default", << DotDot, NameShared >>),
     Stmt(FileUtilSpec, "export", << Dot, NameB, NameHelper >>),
     Stmt(FileDep, "default", << DotDot, DotDot, NameA, NameUtil >>),
     Stmt(FileGitSpec, "default", << DotDot, DotDot, NameA, NameUtil >>) >>

\* the subsets of S with at most k elements
RECURSIVE SubsetsUpTo(_, _)
SubsetsUpTo(S, k) ==
  IF k = 0 THEN {{}}
  ELSE LET smaller == SubsetsUpTo(S, k - 1)
       IN  smaller \cup { T \cup {x} : T \in smaller, x \in S }

\* the statements of file among the chosen ones, in the order of Pool
ContentOf(file, chosen) ==
  LET mine == SelectSeq([i \in 1..Len(Pool) |-> i],
                        LAMBDA i : i \in chosen /\ Pool[i].file = file)
  IN  [j \in 1..Len(mine) |-> [kind |-> Pool[mine[j]].kind, spec |-> Pool[mine[j]].spec]]

InitialFs(chosen) ==
  [files |-> [p \in SkeletonFiles |-> ContentOf(p, chosen)], dirs |-> SkeletonDirs]

(***************************************************************************)
(* The argument of the script, process.argv[2]: absent, the package         *)
(* directory, a path that does not exist, or the path of a file.            *)
(***************************************************************************)
NoArgument == << >>

MissingPath == workspaceRoot \o << << "z" >> >>

PackagePaths == { NoArgument, absolutePackagePath, MissingPath, FileVitestBase }

\* a check that only tests that the argument is there
UsageErrorNoArgumentOnly(fs, path) == path = NoArgument

\* the three checks main starts with, each ending in process.exit(1)
UsageError(fs, path) ==
  \/ path = NoArgument
  \/ ~ExistsSync(fs, path)
  \/ path \notin fs.dirs

(***************************************************************************)
(* The state.                                                               *)
(***************************************************************************)
VARIABLES
  fs,                     \* the file system
  pc,                     \* where the script is
  usedFiles,              \* findUsedFiles: the Set usedFiles
  directlyImportedFiles,  \* findUsedFiles: the Set directlyImportedFiles
  reExportedFiles,        \* findUsedFiles: the Set reExportedFiles
  toProcess,              \* findUsedFiles: the queue
  readLog,                \* findUsedFiles: the files processed (read and scanned), in order
  testFiles,              \* main: testFiles
  sourceFiles,            \* main: sourceFiles
  deletedCount,           \* main: deletedCount
  failing,                \* main: the source files whose fs.unlinkSync throws
  dirMap,                 \* main: dirMap, in insertion order
  renameLog,              \* anonymizeDirectories: the generateFolderName calls
  fs0,                    \* the file system when the script started
  fsPre,                  \* the file system when anonymizeDirectories was called
  packagePath             \* main: process.argv[2]

vars ==
  << fs, pc, usedFiles, directlyImportedFiles, reExportedFiles, toProcess, readLog,
     testFiles, sourceFiles, deletedCount, failing, dirMap, renameLog, fs0, fsPre,
     packagePath >>

findVars == << usedFiles, directlyImportedFiles, reExportedFiles, toProcess, readLog >>

mainVars == << testFiles, sourceFiles, deletedCount, failing, dirMap, renameLog, fsPre >>

Init ==
  /\ \E chosen \in SubsetsUpTo(1..Len(Pool), MaxStmts) : fs = InitialFs(chosen)
  /\ fs0 = fs
  /\ pc = "init"
  /\ usedFiles = {}
  /\ directlyImportedFiles = {}
  /\ reExportedFiles = {}
  /\ toProcess = << >>
  /\ readLog = << >>
  /\ testFiles = << >>
  /\ sourceFiles = << >>
  /\ deletedCount = 0
  /\ failing = {}
  /\ dirMap = << >>
  /\ renameLog = << >>
  /\ fsPre = fs
  /\ packagePath \in PackagePaths

(***************************************************************************)
(* findUsedFiles(absolutePackagePath).                                      *)
(***************************************************************************)
\* up to the while loop
FindUsedStart ==
  /\ pc = "init"
  /\ IF ExistsSync(fs, EntryPoint(absolutePackagePath))
     THEN /\ toProcess' = << EntryPoint(absolutePackagePath) >>
          /\ pc' = "bfs"
     ELSE /\ toProcess' = toProcess
          /\ pc' = "found"
  /\ UNCHANGED << fs, usedFiles, directlyImportedFiles, reExportedFiles, readLog,
                  mainVars, fs0, packagePath >>

\* one iteration of the while loop
FindUsedIterate ==
  /\ pc = "bfs"
  /\ toProcess # << >>
  /\ LET currentFile == Head(toProcess)
         queue == Tail(toProcess)
     IN  IF AlreadyUsed(usedFiles, currentFile)
         THEN /\ toProcess' = queue
              /\ UNCHANGED << usedFiles, directlyImportedFiles, readLog >>
         ELSE
           LET used == usedFiles \cup {currentFile}
               imports == extractImports(fs, currentFile, absolutePackagePath)
               \* the loop over directImportRegex in findUsedFiles itself
               direct == ResolvedTargets(fs, currentFile, absolutePackagePath,
                           SelectSeq(fs.files[currentFile],
                                     LAMBDA st : MatchesImportRegex(st.kind)))
           IN  /\ usedFiles' = used
               /\ readLog' = Append(readLog, currentFile)
               /\ directlyImportedFiles' =
                    directlyImportedFiles \cup Range(direct) \cup Range(imports.directImports)
               /\ toProcess' = PushUnused(PushUnused(queue, used, imports.directImports),
                                          used, imports.reExports)
  /\ UNCHANGED << fs, pc, reExportedFiles, mainVars, fs0, packagePath >>

\* after the loop
FindUsedFinish ==
  /\ pc = "bfs"
  /\ toProcess = << >>
  /\ reExportedFiles' = ReExportedOnly(usedFiles, directlyImportedFiles)
  /\ pc' = "found"
  /\ UNCHANGED << fs, usedFiles, directlyImportedFiles, toProcess, readLog, mainVars, fs0, packagePath >>

(***************************************************************************)
(* main, one phase at a time.                                               *)
(***************************************************************************)
\* the argument checks fail: process.exit(1)
MainUsageError ==
  /\ pc = "init"
  /\ UsageError(fs, packagePath)
  /\ pc' = "exit1"
  /\ UNCHANGED << fs, findVars, mainVars, fs0, packagePath >>

\* "Find all test files", "Anonymize test files"; past the argument checks
\* path.resolve(packagePath) is the package directory
MainAnonymizeTests ==
  /\ pc = "init"
  /\ ~UsageError(fs, packagePath)
  /\ testFiles' = findTestFiles(fs, absolutePackagePath)
  /\ fs' = AnonymizeTests(fs, testFiles', 0)
  /\ pc' = "tests"
  /\ UNCHANGED << findVars, sourceFiles, deletedCount, failing, dirMap, renameLog,
                  fs0, fsPre, packagePath >>

\* "Find all source files", "Delete test/ directories"
MainFindSources ==
  /\ pc = "tests"
  /\ sourceFiles' = findSourceFiles(fs, absolutePackagePath)
  /\ fs' = deleteTestDirectories(fs, absolutePackagePath)
  /\ pc' = "sources"
  /\ UNCHANGED << findVars, testFiles, deletedCount, failing, dirMap, renameLog,
                  fs0, fsPre, packagePath >>

\* "Delete all non-test TypeScript files", "Ensure vitest.config.ts exists"
MainDeleteSources ==
  /\ pc = "sources"
  /\ \E fail \in SubsetsUpTo(Range(sourceFiles), MaxDeleteFail) :
       LET st == DeleteSources([fs |-> fs, deletedCount |-> 0], sourceFiles, fail,
                               absolutePackagePath)
       IN  /\ failing' = fail
           /\ deletedCount' = st.deletedCount
           /\ fs' = EnsureVitestConfig(st.fs, absolutePackagePath, workspaceRoot)
  /\ pc' = "deleted"
  /\ UNCHANGED << findVars, testFiles, sourceFiles, dirMap, renameLog, fs0, fsPre, packagePath >>

\* "Anonymize directory names"
MainAnonymizeDirectories ==
  /\ pc = "deleted"
  /\ LET st == anonymizeDirectories(fs, srcDirPath)
     IN  /\ fs' = st.fs
         /\ dirMap' = st.dirMap
         /\ renameLog' = st.log
  /\ fsPre' = fs
  /\ pc' = "renamed"
  /\ UNCHANGED << findVars, testFiles, sourceFiles, deletedCount, failing, fs0, packagePath >>

\* "Update all file paths after directory renaming"
MainUpdatePaths ==
  /\ pc = "renamed"
  /\ fs' = IF ExistsSync(fs, srcDirPath) THEN updateAllFilePaths(fs, srcDirPath, dirMap)
           ELSE fs
  /\ pc' = "rewritten"
  /\ UNCHANGED << findVars, mainVars, fs0, packagePath >>

\* "Final cleanup", "Rename the package directory"
MainFinish ==
  /\ pc = "rewritten"
  /\ fs' = Rename(cleanupEmptyDirs(fs, absolutePackagePath, absolutePackagePath),
                  absolutePackagePath, newPackagePath)
  /\ pc' = "done"
  /\ UNCHANGED << findVars, mainVars, fs0, packagePath >>

Next ==
  \/ FindUsedStart
  \/ FindUsedIterate
  \/ FindUsedFinish
  \/ MainUsageError
  \/ MainAnonymizeTests
  \/ MainFindSources
  \/ MainDeleteSources
  \/ MainAnonymizeDirectories
  \/ MainUpdatePaths
  \/ MainFinish

Spec == Init /\ [][Next]_vars

(***************************************************************************)
(* Notions the properties are stated with.                                  *)
(***************************************************************************)
NoPath == << >>

\* the statement forms that carry a specifier after "from"
FromKinds == {"default", "named", "namespace", "export"}

\* a specifier that starts with "." or "/"
RelativeSpec(spec) == StartsWithDot(spec) \/ IsAbsoluteSpec(spec)

\* the file a specifier names: as given, then with .ts, then with /index.ts
Candidates(dir, spec) ==
  << PathResolve(dir, spec), PathResolve(dir, AppendTs(spec)),
     PathResolve(dir, spec) \o << IndexTs >> >>

ResolvesTo(f, dir, spec) ==
  LET c == Candidates(dir, spec)
      ok == { i \in 1..3 : IsFile(f, c[i]) }
  IN  IF ok = {} THEN NoPath ELSE c[CHOOSE i \in ok : \A j \in ok : i <= j]

\* where the renames of a plan, applied in order, take a path
RECURSIVE AfterRenames(_, _)
AfterRenames(p, map) ==
  IF map = << >> THEN p
  ELSE AfterRenames(Moved(p, Head(map).old, Head(map).new), Tail(map))

\* where a path of the package is once main has finished
AfterRun(p) == Moved(AfterRenames(p, dirMap), absolutePackagePath, newPackagePath)

\* p is, or lies inside, a directory of the package with one of the names
InsideNamed(f, p, names) ==
  /\ IsUnder(p, absolutePackagePath)
  /\ \E n \in (Len(absolutePackagePath) + 1)..Len(p) :
       p[n] \in names /\ SubSeq(p, 1, n) \in f.dirs

\* the statements [file, index] of the .ts files below src that
\* updateAllFilePaths gets to, as they were when anonymizeDirectories was
\* called, that carry a relative "from" specifier
RewriterInputs ==
  UNION { { [file |-> F, i |-> i] :
              i \in { j \in 1..Len(fsPre.files[F]) :
                        /\ fsPre.files[F][j].kind \in FromKinds
                        /\ RelativeSpec(fsPre.files[F][j].spec) } } :
          F \in { G \in DOMAIN fsPre.files :
                   /\ IsUnder(G, srcDirPath)
                   /\ EndsWith(Basename(G), TsExt)
                   /\ ~InsideNamed(fsPre, G, {NodeModulesName, DistName, GitName,
                                              TestDirName}) } }

SpecBefore(x) == fsPre.files[x.file][x.i].spec

\* the specifier of the same statement after updateExportPaths
SpecAfter(x) == fs.files[AfterRenames(x.file, dirMap)][x.i].spec

TargetBefore(x) == ResolvesTo(fsPre, Dirname(x.file), SpecBefore(x))

\* the files reachable from the entry point by default imports, named imports
\* and export-from statements that resolve to a file inside the package
ReachEdges(f, from) ==
  { ResolvesTo(f, Dirname(from), f.files[from][i].spec) :
      i \in { j \in 1..Len(f.files[from]) :
                /\ f.files[from][j].kind \in {"default", "named", "export"}
                /\ RelativeSpec(f.files[from][j].spec) } }

RECURSIVE ReachFrom(_, _)
ReachFrom(f, S) ==
  LET more == S \cup { p \in UNION { ReachEdges(f, q) : q \in S } :
                         p # NoPath /\ IsUnder(p, absolutePackagePath) }
  IN  IF more = S THEN S ELSE ReachFrom(f, more)

Reachable(f) ==
  IF IsFile(f, EntryPoint(absolutePackagePath))
  THEN ReachFrom(f, {EntryPoint(absolutePackagePath)}) ELSE {}

(***************************************************************************)
(* The rewriter: C1, C2, C3, C4.                                            *)
(***************************************************************************)
\* C1: after the rewriting pass, every relative specifier of a file below src
\* that named an existing file P before the directories were renamed, P in a
\* directory that has been renamed, resolves from the file's new location to
\* P's new location.
C1_ResolvesAfterRename ==
  pc = "rewritten" =>
    \A x \in RewriterInputs :
      LET P == TargetBefore(x)
      IN  (P # NoPath /\ AfterRenames(Dirname(P), dirMap) # Dirname(P))
            => ResolvesTo(fs, Dirname(AfterRenames(x.file, dirMap)), SpecAfter(x))
                 = AfterRenames(P, dirMap)

\* the specifier with the names of src/a and src/a/b replaced by their new names
ThroughNewNames(spec) ==
  [k \in 1..Len(spec) |->
     IF spec[k] = NameA THEN Basename(AfterRenames(srcDirPath \o << NameA >>, dirMap))
     ELSE IF spec[k] = NameB
       THEN Basename(AfterRenames(srcDirPath \o << NameA, NameB >>, dirMap))
     ELSE spec[k]]

\* C2: with src/a and src/a/b both renamed, an import in a file outside src/a
\* of a file directly in src/a is rewritten to go through the new name of a,
\* and an export-from in a file of src/a of a file in src/a/b is rewritten to
\* go through the new name of b.
C2_NestedRenames ==
  pc = "rewritten" =>
    \A x \in RewriterInputs :
      LET P == TargetBefore(x)
          dirA == srcDirPath \o << NameA >>
          dirB == dirA \o << NameB >>
          kind == fsPre.files[x.file][x.i].kind
      IN  (/\ P # NoPath
           /\ \E m \in 1..Len(dirMap) : dirMap[m].old = dirA
           /\ \E m \in 1..Len(dirMap) : dirMap[m].old = dirB
           /\ \/ kind # "export" /\ ~IsUnder(x.file, dirA) /\ Dirname(P) = dirA
              \/ kind = "export" /\ Dirname(x.file) = dirA /\ Dirname(P) = dirB)
            => SpecAfter(x) = ThroughNewNames(SpecBefore(x))

\* the specifier named a directory: it resolved through the index.ts fallback
ResolvedViaIndex(x) ==
  /\ ~SpecEndsWithTs(SpecBefore(x))
  /\ TargetBefore(x) # NoPath
  /\ TargetBefore(x) = Candidates(Dirname(x.file), SpecBefore(x))[3]
  /\ TargetBefore(x) # Candidates(Dirname(x.file), SpecBefore(x))[2]

\* C3: a rewritten specifier that had no .ts extension and resolved through
\* the index.ts fallback has no extension and no trailing index segment; a
\* rewritten specifier that ended in .ts still ends in .ts.
C3_FormPreserved ==
  pc = "rewritten" =>
    \A x \in RewriterInputs :
      SpecAfter(x) # SpecBefore(x) =>
        /\ ResolvedViaIndex(x) =>
             /\ ~SpecEndsWithTs(SpecAfter(x))
             /\ SpecAfter(x)[Len(SpecAfter(x))] # IndexName
        /\ SpecEndsWithTs(SpecBefore(x)) => SpecEndsWithTs(SpecAfter(x))

\* the targets extractImports would return for a file if it looked only at
\* the statements with a relative specifier
RelativeTargets(f, file) ==
  { ResolveImport(f, Dirname(file), f.files[file][i].spec) :
      i \in { j \in 1..Len(f.files[file]) :
                /\ f.files[file][j].kind \in FromKinds
                /\ RelativeSpec(f.files[file][j].spec) } }

\* C4: a specifier that starts with neither "." nor "/" is the same after the
\* rewriting pass as before it, in every file; and the paths extractImports
\* returns all come from specifiers that start with "." or "/".
C4_ExternalUntouched ==
  /\ pc = "rewritten" =>
       \A F \in DOMAIN fsPre.files :
         LET before == fsPre.files[F]
             after == fs.files[AfterRenames(F, dirMap)]
         IN  /\ Len(after) = Len(before)
             /\ \A i \in 1..Len(before) :
                  ~RelativeSpec(before[i].spec) => after[i] = before[i]
  /\ \A file \in DOMAIN fs.files :
       LET r == extractImports(fs, file, absolutePackagePath)
       IN  Range(r.directImports) \cup Range(r.reExports) \subseteq RelativeTargets(fs, file)

\* C4 witness: the rewriting pass has run with a non-empty plan over a file
\* that holds an external specifier and a specifier it rewrote.
C4_Witness ==
  /\ pc = "rewritten"
  /\ dirMap # << >>
  /\ \E x \in RewriterInputs :
       /\ SpecAfter(x) # SpecBefore(x)
       /\ \E i \in 1..Len(fsPre.files[x.file]) :
            /\ fsPre.files[x.file][i].kind \in FromKinds
            /\ ~RelativeSpec(fsPre.files[x.file][i].spec)

(***************************************************************************)
(* The dependency graph: C5, C6, C7, C10.                                   *)
(***************************************************************************)
\* C5: what findUsedFiles returns as usedFiles is the set of the files
\* reachable from src/index.ts through default imports, named imports and
\* export-from statements that resolve to a file inside the package.
C5_UsedIsReachable == pc = "found" => usedFiles = Reachable(fs)

\* C6: reExportedFiles holds exactly the used files that were never recorded
\* as directly imported and are not the entry point.
C6_ReExportOnly ==
  pc = "found" =>
    /\ reExportedFiles =
         { f \in usedFiles : /\ f \notin directlyImportedFiles
                             /\ f # EntryPoint(absolutePackagePath) }
    /\ reExportedFiles \subseteq usedFiles
    /\ EntryPoint(absolutePackagePath) \notin reExportedFiles

\* how many files and directories findUsedFiles has not visited
Unvisited == Cardinality(((DOMAIN fs.files) \cup fs.dirs) \ usedFiles)

NoFileReadTwice ==
  \A i, j \in 1..Len(readLog) : i # j => readLog[i] # readLog[j]

Follows(from, to) ==
  LET r == extractImports(fs, from, absolutePackagePath)
  IN  to \in Range(r.directImports) \cup Range(r.reExports)

C10_InsidePackage ==
  \A p \in usedFiles \cup Range(toProcess) :
    IsFile(fs, p) /\ IsUnder(p, absolutePackagePath)

(***************************************************************************)
(* The run as a whole: C8, C9.                                              *)
(***************************************************************************)
\* every relative specifier of every .ts file below root names a file
AllImportsResolve(f, root) ==
  \A file \in { g \in DOMAIN f.files : IsUnder(g, root) /\ EndsWith(Basename(g), TsExt) } :
    \A i \in 1..Len(f.files[file]) :
      RelativeSpec(f.files[file][i].spec)
        => ResolvesTo(f, Dirname(file), f.files[file][i].spec) # NoPath

\* C8: when every relative specifier of the package resolved before the run,
\* every relative specifier of every .ts file the package holds after the run
\* resolves.
C8_NoBrokenImports ==
  (pc = "done" /\ AllImportsResolve(fs0, absolutePackagePath))
    => AllImportsResolve(fs, newPackagePath)

\* C9: a run deletes no implementation file that is reachable from
\* src/index.ts; every reachable implementation file, src/index.ts included,
\* exists after the run and holds export statements only.
C9_DeletionByReachability ==
  pc = "done" =>
    \A p \in Range(sourceFiles) :
      /\ ~IsFile(fs, AfterRun(p)) => p \notin Reachable(fs0)
      /\ p \in Reachable(fs0) =>
           /\ IsFile(fs, AfterRun(p))
           /\ \A i \in 1..Len(fs.files[AfterRun(p)]) :
                fs.files[AfterRun(p)][i].kind = "export"

(***************************************************************************)
(* Unresolved specifiers: C11.                                              *)
(***************************************************************************)
\* none of the candidates of a specifier (as given, + .ts, /index.ts) is on disk
Unresolved(f, dir, spec) ==
  \A i \in 1..3 : ~ExistsSync(f, Candidates(dir, spec)[i])

\* C11: a relative specifier none of whose candidates is on disk, neither
\* before the directories were renamed nor when updateExportPaths runs, is the
\* same after the rewriting pass; and every path extractImports returns is a
\* path that exists, so an unresolved specifier adds no edge.
C11_UnresolvedSkipped ==
  /\ pc = "rewritten" =>
       \A x \in RewriterInputs :
         (/\ Unresolved(fsPre, Dirname(x.file), SpecBefore(x))
          /\ Unresolved(fs, Dirname(AfterRenames(x.file, dirMap)), SpecBefore(x)))
           => SpecAfter(x) = SpecBefore(x)
  /\ \A file \in DOMAIN fs.files :
       LET r == extractImports(fs, file, absolutePackagePath)
       IN  \A p \in Range(r.directImports) \cup Range(r.reExports) : ExistsSync(fs, p)

(***************************************************************************)
(* Directory exclusions: C12.                                               *)
(***************************************************************************)
\* where a path is now: the renames of the plan, then that of the package
Where(p) == IF pc = "done" THEN AfterRun(p) ELSE AfterRenames(p, dirMap)

\* the file or directory p of f is in place, a file with the content it had
Kept(f, p) ==
  IF p \in f.dirs THEN Where(p) \in fs.dirs
  ELSE Where(p) \in DOMAIN fs.files /\ fs.files[Where(p)] = f.files[p]

\* no directory with one of the names, and nothing inside one, got a new name
NotRenamed(names) ==
  /\ \A i \in 1..Len(dirMap) : ~InsideNamed(fsPre, dirMap[i].old, names)
  /\ \A i \in 1..Len(renameLog) : ~InsideNamed(fsPre, renameLog[i].dir, names)

MainPhases == {"tests", "sources", "deleted", "renamed", "rewritten", "done"}

\* the argument is missing, names nothing, or names something that is no directory
BadArgument(f, path) ==
  \/ path = NoArgument
  \/ path \notin (DOMAIN f.files) \cup f.dirs
  \/ path \in DOMAIN f.files

\* C13: when the package-path argument is missing, names a path that does not
\* exist or names a file, main never gets past its argument checks, it ends
\* with exit status 1 only, and the file system stays as it was.
C13_UsageErrorsBeforeMutation ==
  /\ BadArgument(fs0, packagePath) => (pc \notin MainPhases /\ fs = fs0)
  /\ pc = "exit1" => (BadArgument(fs0, packagePath) /\ fs = fs0)

\* C13 witness: main has exited with status 1 on the path of a file.
C13_Witness == pc = "exit1" /\ packagePath \in DOMAIN fs0.files

(***************************************************************************)
(* Deletion failures: C14.                                                  *)
(***************************************************************************)
\* C14: once the source files have been gone through, deletedCount is the
\* number of source files whose deletion did not fail; a file whose deletion
\* failed is still there, in its directory; and every other source file is
\* gone, those that come after the failure in sourceFiles too.
C14_DeletionFailureRecoverable ==
  /\ pc \in {"deleted", "renamed", "rewritten", "done"} =>
       /\ deletedCount = Cardinality(Range(sourceFiles) \ failing)
       /\ \A f \in Range(sourceFiles) :
            IF f \in failing
            THEN IsFile(fs, Where(f)) /\ Dirname(Where(f)) \in fs.dirs
            ELSE ~IsFile(fs, Where(f))

\* C14 witness: a run in which the deletion of a source file failed, with
\* source files before it and after it in sourceFiles, has gone through all
\* its phases.
C14_Witness ==
  /\ pc = "done"
  /\ \E i \in 2..(Len(sourceFiles) - 1) : sourceFiles[i] \in failing
  /\ deletedCount > 0

(***************************************************************************)
(* The rename plan: C15.                                                    *)
(***************************************************************************)
\* C15: when anonymizeDirectories has returned, every entry old -> new of the
\* map has as its new path a directory that exists, the one the renames have
\* taken the directory that was at old to.
C15_PlanReflectsDisk ==
  pc = "renamed" =>
    \A i \in 1..Len(dirMap) :
      /\ dirMap[i].old \in fsPre.dirs
      /\ dirMap[i].new \in fs.dirs
      /\ dirMap[i].new = AfterRenames(dirMap[i].old, dirMap)

(***************************************************************************)
(* The choice of the plan entry: C16, C17.                                  *)
(***************************************************************************)
\* the position in dirMap of the entry updateExportPaths applies to statement
\* x, whose file is where the renames have taken it; 0 when it applies none
EntryUsed(x) == AppliedEntry(fs, AfterRenames(x.file, dirMap), SpecBefore(x), dirMap)

\* what updateExportPaths resolves the specifier of statement x to
ResolvedByRewriter(x) ==
  ResolveImport(fs, Dirname(AfterRenames(x.file, dirMap)), SpecBefore(x))

\* C16: the entry old -> new that updateExportPaths applies to a specifier is
\* one whose old directory is the resolved target or an ancestor of it, by
\* whole path components.
C16_EntryOnlyUnderOld ==
  pc = "rewritten" =>
    \A x \in RewriterInputs :
      EntryUsed(x) # 0 => IsUnder(ResolvedByRewriter(x), dirMap[EntryUsed(x)].old)

\* entry j of dirMap is for a directory strictly inside that of entry k
Deeper(j, k) ==
  /\ j # k
  /\ IsUnder(dirMap[j].old, dirMap[k].old)

RenameExclusions == {NodeModulesName, DistName, GitName, TestDirName}

\* the directories below src that anonymizeDirectories has to name: those
\* that are not excluded and lie in no excluded directory
ToBeNamed ==
  { d \in fsPre.dirs : /\ IsUnder(d, srcDirPath) /\ d # srcDirPath
                       /\ ~InsideNamed(fsPre, d, RenameExclusions) }

\* C18: anonymizeDirectories names every directory below src that is not
\* excluded exactly once, each one after all the directories inside it, and
\* enters the map in that order too; a directory with an excluded name, and
\* whatever is inside it, is not named, not renamed and has no map entry.
C18_PostOrder ==
  pc \in {"renamed", "rewritten", "done"} =>
    /\ { renameLog[i].dir : i \in 1..Len(renameLog) } = ToBeNamed
    /\ \A i, j \in 1..Len(renameLog) :
         /\ (i # j) => renameLog[i].dir # renameLog[j].dir
         /\ (i # j /\ IsUnder(renameLog[i].dir, renameLog[j].dir)) => i < j
    /\ \A i, j \in 1..Len(dirMap) :
         (i # j /\ IsUnder(dirMap[i].old, dirMap[j].old)) => i < j
    /\ { dirMap[i].old : i \in 1..Len(dirMap) } \subseteq ToBeNamed
    /\ \A d \in fsPre.dirs :
         (IsUnder(d, srcDirPath) /\ InsideNamed(fsPre, d, RenameExclusions))
           => /\ Where(d) \in fs.dirs
              /\ Basename(Where(d)) = Basename(d)

\* C18 witness: anonymizeDirectories has returned after naming a directory
\* and a directory inside it, on a tree that holds an excluded directory with
\* a directory inside.
C18_Witness ==
  /\ pc = "renamed"
  /\ \E i, j \in 1..Len(renameLog) :
       i < j /\ IsUnder(renameLog[i].dir, renameLog[j].dir)
  /\ \E d \in fsPre.dirs :
       /\ IsUnder(d, srcDirPath)
       /\ Basename(Dirname(d)) \in RenameExclusions

\* C19: the counter values anonymizeDirectories passes to generateFolderName
\* strictly increase from each call to the next, so no two directories of one
\* run are named with the same counter value.
C19_MonotonicCounter ==
  pc \in {"renamed", "rewritten", "done"} =>
    \A i, j \in 1..Len(renameLog) :
      i < j => renameLog[i].index < renameLog[j].index

====
